---- MODULE Spec2Model ----
(***************************************************************************)
(* Forest-fire simulation on a graph of land patches (GraphForestProgram). *)
(*                                                                         *)
(* Python objects are modelled as records in a heap indexed by object      *)
(* references, because the program stores references to patch objects in   *)
(* two places: the patch table of Land (id -> object) and the neighbour    *)
(* dictionary of every patch (id -> object).  A dictionary is an ordered   *)
(* sequence of <<key, value>> pairs (Python dicts keep insertion order).   *)
(*                                                                         *)
(* Probabilities are stored in tenths of a percent, so that the class      *)
(* defaults 0.1 (Treepatch.prob_autcombustion, Rockpatch.prob_treepatch)   *)
(* are the integer 1 and a configured p percent is 10 * p.                 *)
(***************************************************************************)
EXTENDS Integers, Sequences, FiniteSets, TLC

VARIABLES
    configs,              \* Land.__configs: landscape, probabilities, firefighters
    edgelist,             \* Land.edgelist: sequence of <<a, b>>
    positions,            \* Land.positions: its keys, in insertion order
    heap,                 \* object reference -> patch object
    nbr,                  \* dictionary reference -> neighbour dictionary
    land_patches,         \* Land.__land_patches: ordered dict id -> object reference
    firefighters,         \* Land.firefighters: ordered dict position -> Firefighter
    run,                  \* number of Land objects constructed in this process
    validated,            \* result of the last Land.validate_graph ("none" before)
    error,                \* exception raised by the last Land.__init__ ("none" if none)
    pc,                   \* position inside Land.update ("idle" between calls)
    idx,                  \* index of the running loop of Land.update
    firefighter_to_move,  \* local of Land.update: positions marked for relocation
    landpatch,            \* local of Land.update: the loop variable landpatch
    t_tree,               \* unit harness: the Treepatch under test
    t_pre,                \* unit harness: that Treepatch before the call
    t_arg,                \* unit harness: the integer argument of the call
    t_op,                 \* unit harness: the call made ("none" before)
    completed_updates,    \* test harness: Land.update calls made by the test
    test_lit,             \* test harness: id of the Treepatch the test lit (0: none)
    builder,              \* GraphBuilder: number_of_trees, number_of_rocks
    r_lines,              \* GraphReader.read_graph: the lines read so far
    r_edgeslist,          \* GraphReader.read_graph: local edgeslist
    r_positions,          \* GraphReader.read_graph: keys of the local positions
    r_reports,            \* GraphReader.read_graph: syntax errors printed so far
    initial_landscape_input, \* landscape_menu: the key entered last (0: none yet)
    tree_iteration_data,  \* SimReporting: the tree series
    rock_iteration_data,  \* SimReporting: the rock series
    wildfire_iteration_data, \* SimReporting: the wildfire series
    sim_args,             \* unit harness: the arguments of the update_sim_data calls
    g_edges,              \* Graph.edges: sequence of <<site0, site1>>
    vertecies,            \* Graph.vertecies: ordered dict name -> Vertex
    val_map,              \* Graph.val_map: ordered dict name -> colour
    frustration_metric,   \* Graph.frustration_metric
    max_violation_metrics \* Graph.max_violation_metrics

vars == <<configs, edgelist, positions, heap, nbr, land_patches, firefighters,
          run, validated, error, pc, idx, firefighter_to_move, landpatch,
          t_tree, t_pre, t_arg, t_op, completed_updates, test_lit, builder,
          r_lines, r_edgeslist, r_positions, r_reports,
          initial_landscape_input, tree_iteration_data, rock_iteration_data,
          wildfire_iteration_data, sim_args, g_edges, vertecies, val_map,
          frustration_metric, max_violation_metrics>>

landVars == <<configs, edgelist, positions, heap, nbr, land_patches,
              firefighters, run, validated, error>>
updateVars == <<pc, idx, firefighter_to_move, landpatch>>
unitVars == <<t_tree, t_pre, t_arg, t_op>>
testVars == <<completed_updates, test_lit>>
readVars == <<r_lines, r_edgeslist, r_positions, r_reports>>
reportVars == <<tree_iteration_data, rock_iteration_data,
                wildfire_iteration_data, sim_args>>
graphVars == <<g_edges, vertecies, val_map, frustration_metric,
               max_violation_metrics>>
auxVars == <<testVars, builder, readVars, initial_landscape_input, reportVars,
             graphVars>>

-----------------------------------------------------------------------------
(* Bounds of the model *)

\* node ids of the generated edge lists are 1..MaxNode
MaxNode == 4
\* generated edge lists have at most MaxEdges edges
MaxEdges == 2
\* Land objects constructed in one process (menu key 7 pressed that often)
MaxRuns == 2

-----------------------------------------------------------------------------
(* Program constants *)

tree_stats_max == 256
tree_stats_min == 0
\* growth of an unlit tree per update
GrowthStep == 10
\* loss of a lit tree per update
BurnStep == 20
\* health of the Treepatch made by Rockpatch.mutate
RegrowStats == 1
\* the default 0.1 of prob_autcombustion and prob_treepatch, in tenths
DefaultProb == 1
\* random.randint(1, 100)
RollMax == 100
\* Landpatch colour None (Rockpatch), outside the colour range -256..256
None == 0 - 1000
\* the value of the unbound local landpatch
Unbound == <<>>

-----------------------------------------------------------------------------
(* Ordered dictionaries: sequences of <<key, value>> with distinct keys *)

Min(a, b) == IF a <= b THEN a ELSE b

Range(s) == {s[k] : k \in 1..Len(s)}

DictKeys(d) == [k \in 1..Len(d) |-> d[k][1]]
DictValues(d) == [k \in 1..Len(d) |-> d[k][2]]
KeySet(d) == {d[k][1] : k \in 1..Len(d)}
HasKey(d, key) == key \in KeySet(d)
DictGet(d, key) == d[CHOOSE k \in 1..Len(d) : d[k][1] = key][2]

\* d[key] = value: in place for an existing key, appended for a new one
DictPut(d, key, value) ==
    IF HasKey(d, key)
    THEN [k \in 1..Len(d) |-> IF d[k][1] = key THEN <<key, value>> ELSE d[k]]
    ELSE Append(d, <<key, value>>)

\* d.pop(key) / del d[key]
DictPop(d, key) == SelectSeq(d, LAMBDA e : e[1] # key)

-----------------------------------------------------------------------------
(* Patch objects *)

IsTree(p) == p.patch_type = 1
IsRock(p) == p.patch_type = 0

Treepatch(patch_id, neighbors, lit_state, prob_autcombustion) ==
    [patch_type |-> 1, patch_id |-> patch_id, neighbors |-> neighbors,
     color |-> 256, firefighter |-> FALSE,
     prob_autcombustion |-> prob_autcombustion, lit_state |-> lit_state,
     tree_stats |-> tree_stats_max]

Rockpatch(patch_id, neighbors, prob_treepatch) ==
    [patch_type |-> 0, patch_id |-> patch_id, neighbors |-> neighbors,
     color |-> None, firefighter |-> FALSE, prob_treepatch |-> prob_treepatch]

set_tree_stats_keep_lit(t, stats) ==
    [t EXCEPT !.tree_stats = Min(stats, tree_stats_max)]

set_tree_stats(t, stats) ==
    IF stats >= tree_stats_max
    THEN [t EXCEPT !.tree_stats = tree_stats_max, !.lit_state = FALSE]
    ELSE [t EXCEPT !.tree_stats = stats]

fight_fire_uncapped(skill, t) ==
    IF ~t.lit_state THEN t
    ELSE [t EXCEPT !.tree_stats = t.tree_stats + skill]

fight_fire(skill, t) ==
    IF ~t.lit_state THEN t
    ELSE IF t.tree_stats + skill <= 256
         THEN set_tree_stats(t, t.tree_stats + skill)
         ELSE set_tree_stats(t, 256)

\* Treepatch.mutate: a Rockpatch with the id and the neighbour dictionary of
\* the tree, and the default prob_treepatch
tree_mutate(t) == Rockpatch(t.patch_id, t.neighbors, DefaultProb)

\* Rockpatch.mutate: an unlit Treepatch with the id and the neighbour
\* dictionary of the rock, the default prob_autcombustion, and health 1
rock_mutate(r) ==
    set_tree_stats(Treepatch(r.patch_id, r.neighbors, FALSE, DefaultProb),
                   RegrowStats)

\* Landpatch.mutate: the replacement object of patch p
mutate_other_id(p) ==
    IF IsTree(p)
    THEN [tree_mutate(p) EXCEPT !.patch_id = p.patch_id + 1]
    ELSE [rock_mutate(p) EXCEPT !.patch_id = p.patch_id + 1]

mutate(p) == IF IsTree(p) THEN tree_mutate(p) ELSE rock_mutate(p)

-----------------------------------------------------------------------------
(* The heap *)

\* h with object (or dictionary) r set to v
Store(h, r, v) == [x \in DOMAIN h \cup {r} |-> IF x = r THEN v ELSE h[x]]

\* object references are <<run, patch id, generation>>; generation 0 is the
\* object made by GraphBuilder, later generations are made by mutate
NewRef(run_no, patch_id) == <<run_no, patch_id, 0>>
\* the reference of the dictionary {} made for a new patch
NewDict(run_no, patch_id) == <<run_no, patch_id>>
\* the reference of the replacement of object r
NextRef(r) == <<r[1], r[2], 1 + (r[3] % 2)>>

\* Landpatch.get_neighbors of object r: its dictionary id -> object reference
get_neighbors(h, n, r) == n[h[r].neighbors]
\* Landpatch.get_neighbors_id
get_neighbors_id(h, n, r) == DictKeys(get_neighbors(h, n, r))

\* Landpatch.add_landpatch_to_neighbour: self._neighbors[id of new] = new
add_landpatch_to_neighbour(h, n, self, new_neighbour) ==
    Store(n, h[self].neighbors,
          DictPut(n[h[self].neighbors], h[new_neighbour].patch_id, new_neighbour))

-----------------------------------------------------------------------------
(* GraphReader and GraphBuilder *)

\* GraphReader.read_graph, lines 37-39: the keys of positions, in the order
\* in which the accepted edges mention them
RECURSIVE read_graph_positions(_, _)
read_graph_positions(edges, pos) ==
    IF edges = <<>> THEN pos
    ELSE read_graph_positions(Tail(edges),
            DictPut(DictPut(pos, Head(edges)[1], 0), Head(edges)[2], 0))

\* current_tree_percentage < target_percentage_of_trees, that is
\* number_of_trees / len(land_patches) < landscape / 100, in integers
BelowTarget_counts_rocks(w, cfg) ==
    IF Len(w.land_patches) > 0
    THEN w.number_of_rocks * 100 < cfg.landscape * Len(w.land_patches)
    ELSE 0 < cfg.landscape

BelowTarget(w, cfg) ==
    IF Len(w.land_patches) > 0
    THEN w.number_of_trees * 100 < cfg.landscape * Len(w.land_patches)
    ELSE 0 < cfg.landscape

\* w is the GraphBuilder at work: the heap, the dictionaries, its land_patches
\* and its two counters
create_landpatch(w, run_no, patch_id, cfg) ==
    LET ref == NewRef(run_no, patch_id)
        dict == NewDict(run_no, patch_id)
        tree == BelowTarget(w, cfg)
        land_patch == IF tree
                      THEN Treepatch(patch_id, dict, FALSE, cfg.probabilities[1])
                      ELSE Rockpatch(patch_id, dict, cfg.probabilities[3])
    IN  [w EXCEPT
            !.heap = Store(w.heap, ref, land_patch),
            !.nbr = Store(w.nbr, dict, <<>>),
            !.number_of_trees = IF tree THEN @ + 1 ELSE @,
            !.number_of_rocks = IF tree THEN @ ELSE @ + 1,
            !.land_patches = DictPut(w.land_patches, patch_id, ref)]

RECURSIVE CreateAll(_, _, _, _)
CreateAll(w, run_no, ids, cfg) ==
    IF ids = <<>> THEN w
    ELSE CreateAll(create_landpatch(w, run_no, Head(ids), cfg), run_no,
                   Tail(ids), cfg)

\* one edge of the second loop of create_landpatches
Connect(w, edge) ==
    LET first_patch == DictGet(w.land_patches, edge[1])
        second_patch == DictGet(w.land_patches, edge[2])
        n1 == add_landpatch_to_neighbour(w.heap, w.nbr, first_patch, second_patch)
    IN  [w EXCEPT !.nbr = add_landpatch_to_neighbour(w.heap, n1,
                                                     second_patch, first_patch)]

RECURSIVE ConnectAll(_, _)
ConnectAll(w, edges) ==
    IF edges = <<>> THEN w
    ELSE ConnectAll(Connect(w, Head(edges)), Tail(edges))

create_landpatches(w, run_no, edges, pos, cfg) ==
    ConnectAll(CreateAll(w, run_no, pos, cfg), edges)

\* GraphBuilder(configs, land_patches).build_graph() for a graph whose source
\* yields edges; the table it fills is the dictionary it was given
build_graph(h, n, table, run_no, edges, cfg) ==
    create_landpatches(
        [heap |-> h, nbr |-> n, land_patches |-> table,
         number_of_trees |-> 0, number_of_rocks |-> 0],
        run_no, edges, DictKeys(read_graph_positions(edges, <<>>)), cfg)

-----------------------------------------------------------------------------
(* Land construction *)

Firefighter(firefighter_id, avg_skill) ==
    [firefighter_id |-> firefighter_id, avg_skill |-> avg_skill]

\* Land.spawn_firefighters; choices[k] is the k-th random.choice among the
\* keys of positions.  w carries heap, land_patches and firefighters.
RECURSIVE spawn_firefighters(_, _, _, _)
spawn_firefighters(w, cfg, choices, firefighters_spawned) ==
    IF ~(firefighters_spawned < cfg.firefighters[1]) THEN w
    ELSE LET spawn_position == choices[firefighters_spawned + 1]
             fireman == Firefighter(firefighters_spawned, cfg.firefighters[2])
             ref == DictGet(w.land_patches, spawn_position)
         IN  spawn_firefighters(
                [w EXCEPT
                    !.firefighters = DictPut(w.firefighters, spawn_position, fireman),
                    !.heap = [w.heap EXCEPT ![ref].firefighter = TRUE]],
                cfg, choices, firefighters_spawned + 1)

\* list.remove(x) until x is no longer in the list
RemoveAll(list, x) == SelectSeq(list, LAMBDA e : e # x)

\* the while loop of Land.validate_graph
RECURSIVE validate_loop(_, _, _, _, _)
validate_loop(h, n, table, unchecked, done) ==
    IF ~(Len(unchecked) > 0) THEN done
    ELSE LET edge == unchecked[Len(unchecked)]
             popped == SubSeq(unchecked, 1, Len(unchecked) - 1)
         IN  IF edge \in Range(done)
             THEN validate_loop(h, n, table, popped, done)
             ELSE validate_loop(h, n, table,
                    RemoveAll(popped \o get_neighbors_id(h, n, DictGet(table, edge)),
                              edge),
                    Append(done, edge))

\* Land.validate_graph(positions, land_patches)
validate_graph(h, n, pos, table) ==
    Len(validate_loop(h, n, table, pos, <<>>)) = Len(pos)

\* Land.get_firefighters
get_firefighters(ff) == DictKeys(ff)

\* Land.__init__ called with configs only: land_patches and firefighters are
\* the default arguments of Land.__init__, two dictionaries made once, when
\* the function is defined, and so handed to every Land of the process.
\* old_table and old_ff are these two dictionaries at the time of the call;
\* planar is the answer of vh.edges_planar.  The result is the state the
\* call leaves behind and the exception it raises.
LandInit(h, n, old_table, old_ff, run_no, cfg, edges, choices, planar) ==
    LET built == build_graph(h, n, old_table, run_no, edges, cfg)
        pos == DictKeys(read_graph_positions(edges, <<>>))
        spawned == spawn_firefighters(
                      [heap |-> built.heap, land_patches |-> built.land_patches,
                       firefighters |-> old_ff],
                      cfg, choices, 0)
        valid == validate_graph(spawned.heap, built.nbr, pos, built.land_patches)
    IN  [heap |-> spawned.heap,
         nbr |-> built.nbr,
         land_patches |-> built.land_patches,
         firefighters |-> spawned.firefighters,
         edgelist |-> edges,
         positions |-> pos,
         validated |-> IF ~planar THEN "none"
                       ELSE IF valid THEN "True" ELSE "False",
         error |-> IF ~planar THEN "ValueError"
                   ELSE IF ~valid THEN "RuntimeError" ELSE "none"]

-----------------------------------------------------------------------------
(* Land.update *)

\* the outcomes of random.randint(1, 100) <= prob, prob in tenths of a percent
RollLE(prob) == {10 * r <= prob : r \in 1..RollMax}
\* the outcomes of random.randint(1, 100) < prob
RollLT(prob) == {10 * r < prob : r \in 1..RollMax}

\* the objects that the patch table or a neighbour dictionary refers to
Reachable(n, table) ==
    Range(DictValues(table))
        \cup UNION {Range(DictValues(n[d])) : d \in DOMAIN n}

\* the heap without the objects nothing refers to any more
Collect(h, n, table) ==
    [r \in DOMAIN h \cap Reachable(n, table) |-> h[r]]

\* Land.update is entered on the Land that Land.__init__ returned
UpdateCall ==
    /\ pc = "idle"
    /\ run >= 1
    /\ error = "none"
    /\ pc' = "decide"
    /\ idx' = 1
    /\ firefighter_to_move' = <<>>
    /\ landpatch' = Unbound
    /\ UNCHANGED <<landVars, unitVars, builder, readVars,
                   initial_landscape_input, reportVars, graphVars>>

\* Land.update is called, any number of times
BeginUpdate ==
    /\ UpdateCall
    /\ UNCHANGED testVars

\* a first loop that marks every firefighter, the fighting ones too
Decide_marks_all ==
    /\ pc = "decide"
    /\ idx <= Len(firefighters)
    /\ LET position == firefighters[idx][1]
           firefighter == firefighters[idx][2]
       IN  IF ~HasKey(land_patches, position)
           THEN /\ pc' = "KeyError"
                /\ UNCHANGED <<heap, idx, firefighter_to_move, landpatch>>
           ELSE LET ref == DictGet(land_patches, position)
                IN  /\ landpatch' = ref
                    /\ IF IsTree(heap[ref]) /\ heap[ref].lit_state
                       THEN /\ heap' = [heap EXCEPT
                                   ![ref] = fight_fire(firefighter.avg_skill, @)]
                            /\ firefighter_to_move' =
                                   DictPut(firefighter_to_move, position, firefighter)
                       ELSE /\ firefighter_to_move' =
                                   DictPut(firefighter_to_move, position, firefighter)
                            /\ UNCHANGED heap
                    /\ idx' = idx + 1
                    /\ pc' = pc
    /\ UNCHANGED <<configs, edgelist, positions, nbr, land_patches,
                   firefighters, run, validated, error, unitVars, auxVars>>

\* one pass of the first loop: fight on a lit Treepatch, else mark to move;
\* KeyError when the patch table has no entry for the position
Decide ==
    /\ pc = "decide"
    /\ idx <= Len(firefighters)
    /\ LET position == firefighters[idx][1]
           firefighter == firefighters[idx][2]
       IN  IF ~HasKey(land_patches, position)
           THEN /\ pc' = "KeyError"
                /\ UNCHANGED <<heap, idx, firefighter_to_move, landpatch>>
           ELSE LET ref == DictGet(land_patches, position)
                IN  /\ landpatch' = ref
                    /\ IF IsTree(heap[ref]) /\ heap[ref].lit_state
                       THEN /\ heap' = [heap EXCEPT
                                   ![ref] = fight_fire(firefighter.avg_skill, @)]
                            /\ UNCHANGED firefighter_to_move
                       ELSE /\ firefighter_to_move' =
                                   DictPut(firefighter_to_move, position, firefighter)
                            /\ UNCHANGED heap
                    /\ idx' = idx + 1
                    /\ pc' = pc
    /\ UNCHANGED <<configs, edgelist, positions, nbr, land_patches,
                   firefighters, run, validated, error, unitVars, auxVars>>

DecideDone ==
    /\ pc = "decide"
    /\ idx > Len(firefighters)
    /\ pc' = "relocate"
    /\ idx' = 1
    /\ UNCHANGED <<landVars, firefighter_to_move, landpatch, unitVars, auxVars>>

\* Firefighter.move, lines 65-69: the indices of the neighbour objects that
\* are lit Treepatches on a position without a firefighter
LitTargets(h, neighbours, firefighter_positions) ==
    {k \in 1..Len(neighbours) :
        /\ IsTree(h[neighbours[k][2]])
        /\ h[neighbours[k][2]].lit_state
        /\ h[neighbours[k][2]].patch_id \notin Range(firefighter_positions)}

\* Firefighter.move, line 71: after the for loop the name landpatch is bound
\* to the last neighbour object (to the argument when there is no neighbour),
\* and the random destination is drawn from the neighbour ids of that object
MoveCandidates(h, n, arg, neighbours) ==
    IF Len(neighbours) > 0
    THEN get_neighbors_id(h, n, neighbours[Len(neighbours)][2])
    ELSE get_neighbors_id(h, n, arg)

\* Firefighter.move(landpatch, firefighter_positions): the ways it can end.
\* "return" with the destination id; "IndexError" when random.choice gets an
\* empty list; "loop" when every draw is an occupied position, so that the
\* while loop does not end
Return(destination) == [end |-> "return", destination |-> destination]
Raise(kind) == [end |-> kind, destination |-> 0]

move_any_candidate(h, n, arg, firefighter_positions) ==
    LET neighbours == get_neighbors(h, n, arg)
        candidates == MoveCandidates(h, n, arg, neighbours)
    IN  IF candidates = <<>> THEN {Raise("IndexError")}
        ELSE {Return(d) : d \in Range(candidates)}

move(h, n, arg, firefighter_positions) ==
    LET neighbours == get_neighbors(h, n, arg)
        lit == LitTargets(h, neighbours, firefighter_positions)
        candidates == MoveCandidates(h, n, arg, neighbours)
        free == Range(candidates) \ Range(firefighter_positions)
    IN  IF lit # {}
        THEN {Return(h[neighbours[CHOOSE k \in lit : \A j \in lit : k <= j][2]].patch_id)}
        ELSE IF candidates = <<>> THEN {Raise("IndexError")}
        ELSE IF free = {} THEN {Raise("loop")}
        ELSE {Return(d) : d \in free}

\* one pass of the second loop: pop the firefighter, clear the flag of the
\* position it leaves, move, insert it at the destination and set the flag;
\* KeyError when the patch table has no entry for one of the two positions
Relocate ==
    /\ pc = "relocate"
    /\ idx <= Len(firefighter_to_move)
    /\ LET position == firefighter_to_move[idx][1]
           firefighter == DictGet(firefighters, position)
           popped == DictPop(firefighters, position)
       IN  IF ~HasKey(land_patches, position)
           THEN /\ pc' = "KeyError"
                /\ firefighters' = popped
                /\ UNCHANGED <<heap, idx>>
           ELSE LET h1 == [heap EXCEPT
                             ![DictGet(land_patches, position)].firefighter = FALSE]
                IN  \E m \in move(h1, nbr, landpatch, get_firefighters(popped)) :
                       IF m.end # "return"
                       THEN /\ pc' = m.end
                            /\ firefighters' = popped
                            /\ heap' = h1
                            /\ idx' = idx
                       ELSE /\ firefighters' =
                                   DictPut(popped, m.destination, firefighter)
                            /\ IF HasKey(land_patches, m.destination)
                               THEN /\ pc' = pc
                                    /\ heap' = [h1 EXCEPT
                                          ![DictGet(land_patches, m.destination)]
                                              .firefighter = TRUE]
                                    /\ idx' = idx + 1
                               ELSE /\ pc' = "KeyError"
                                    /\ heap' = h1
                                    /\ idx' = idx
    /\ UNCHANGED <<configs, edgelist, positions, nbr, land_patches, run,
                   validated, error, firefighter_to_move, landpatch, unitVars,
                   auxVars>>

\* a second loop that can be left before every marked firefighter has moved
RelocateDone_early ==
    /\ pc = "relocate"
    /\ pc' = "patches"
    /\ idx' = 1
    /\ landpatch' = Unbound
    /\ UNCHANGED <<landVars, firefighter_to_move, unitVars, auxVars>>

\* the second loop is over; landpatch is not read again before the third
\* loop binds it anew
RelocateDone ==
    /\ pc = "relocate"
    /\ idx > Len(firefighter_to_move)
    /\ pc' = "patches"
    /\ idx' = 1
    /\ landpatch' = Unbound
    /\ UNCHANGED <<landVars, firefighter_to_move, unitVars, auxVars>>

\* a transmission that lights land_patch itself when a roll succeeds
update_fire_transmition_spreads(h, n, land_patch, hit) ==
    [h EXCEPT ![land_patch].lit_state = (hit # {}) \/ @]

\* Land.update_fire_transmition(land_patch) where the rolls of the lit
\* Treepatch neighbours in hit succeed: set_lit_state(True) on each of them
update_fire_transmition(h, n, land_patch, hit) ==
    [r \in DOMAIN h |->
        IF r \in hit THEN [h[r] EXCEPT !.lit_state = TRUE] ELSE h[r]]

\* the neighbour objects of land_patch whose roll is drawn at all
LitNeighbours(h, n, land_patch) ==
    {r \in Range(DictValues(get_neighbors(h, n, land_patch))) :
        IsTree(h[r]) /\ h[r].lit_state}

\* the sets of neighbours whose transmission roll can succeed together
TransmissionHits(h, n, land_patch, prob) ==
    {hit \in SUBSET LitNeighbours(h, n, land_patch) :
        /\ (hit # {} => TRUE \in RollLT(prob))
        /\ (hit # LitNeighbours(h, n, land_patch) => FALSE \in RollLT(prob))}

\* Treepatch.update where the autocombustion roll is ignite;
\* the patch afterwards and the value returned
tree_update_no_floor(t, ignite) ==
    LET lit == t.lit_state \/ ignite
    IN  IF ~lit
        THEN [patch |-> [t EXCEPT !.tree_stats = t.tree_stats + GrowthStep,
                                  !.color = t.tree_stats + GrowthStep],
              mutate |-> FALSE]
        ELSE [patch |-> [t EXCEPT !.lit_state = TRUE,
                                  !.tree_stats = t.tree_stats - BurnStep,
                                  !.color = t.tree_stats - BurnStep - 256],
              mutate |-> FALSE]

tree_update(t, ignite) ==
    LET lit == t.lit_state \/ ignite
    IN  IF ~lit
        THEN LET stats == IF t.tree_stats + GrowthStep <= tree_stats_max
                          THEN t.tree_stats + GrowthStep
                          ELSE tree_stats_max
             IN  [patch |-> [t EXCEPT !.tree_stats = stats, !.color = stats],
                  mutate |-> FALSE]
        ELSE IF t.tree_stats - BurnStep >= tree_stats_min
             THEN [patch |-> [t EXCEPT !.lit_state = TRUE,
                                       !.tree_stats = t.tree_stats - BurnStep,
                                       !.color = (0 - 256)
                                           - ((0 - 1) * (t.tree_stats - BurnStep))],
                   mutate |-> FALSE]
             ELSE [patch |-> [t EXCEPT !.lit_state = TRUE], mutate |-> TRUE]

\* a rock that asks for the mutation whatever the roll
rock_update_always(r, grow) == [patch |-> r, mutate |-> TRUE]

\* Rockpatch.update where the regrowth roll is grow
rock_update(r, grow) == [patch |-> r, mutate |-> grow]

\* the outcomes of the roll that update() of patch p draws
UpdateRolls(p) ==
    IF IsTree(p) THEN RollLE(p.prob_autcombustion) ELSE RollLE(p.prob_treepatch)

\* Landpatch.update
patch_update(p, roll) ==
    IF IsTree(p) THEN tree_update(p, roll) ELSE rock_update(p, roll)

\* Land.mutate_landpatch(landtpatch): store the replacement in the patch
\* table under its own id
mutate_landpatch_remove(h, table, landtpatch) ==
    [heap |-> h, land_patches |-> DictPop(table, h[landtpatch].patch_id)]

mutate_landpatch(h, table, landtpatch) ==
    LET mutated_landpatch == mutate(h[landtpatch])
    IN  [heap |-> Store(h, NextRef(landtpatch), mutated_landpatch),
         land_patches |-> DictPut(table, mutated_landpatch.patch_id,
                                  NextRef(landtpatch))]

\* one pass of the third loop: fire transmission for a Treepatch, update(),
\* and the mutation if update() asks for it
PatchStep ==
    /\ pc = "patches"
    /\ idx <= Len(land_patches)
    /\ LET ref == land_patches[idx][2]
       IN  \E hit \in IF IsTree(heap[ref])
                      THEN TransmissionHits(heap, nbr, ref, configs.probabilities[1])
                      ELSE {{}} :
           LET h1 == update_fire_transmition(heap, nbr, ref, hit)
           IN  \E roll \in UpdateRolls(h1[ref]) :
               LET res == patch_update(h1[ref], roll)
                   h2 == [h1 EXCEPT ![ref] = res.patch]
                   mut == mutate_landpatch(h2, land_patches, ref)
               IN  IF res.mutate
                   THEN /\ land_patches' = mut.land_patches
                        /\ heap' = Collect(mut.heap, nbr, mut.land_patches)
                   ELSE /\ land_patches' = land_patches
                        /\ heap' = h2
    /\ idx' = idx + 1
    /\ UNCHANGED <<configs, edgelist, positions, nbr, firefighters, run,
                   validated, error, pc, firefighter_to_move, landpatch, unitVars, auxVars>>

\* Land.update returns
EndUpdate ==
    /\ pc = "patches"
    /\ idx > Len(land_patches)
    /\ pc' = "idle"
    /\ idx' = 0
    /\ firefighter_to_move' = <<>>
    /\ UNCHANGED <<landVars, landpatch, unitVars, auxVars>>

-----------------------------------------------------------------------------
(* Inputs *)

\* the 4-node cycle 1-2-3-4-1
Cycle4 == <<<<1, 2>>, <<2, 3>>, <<3, 4>>, <<4, 1>>>>
Path3 == <<<<1, 2>>, <<2, 3>>>>
Edge2 == <<<<1, 2>>>>

Config(landscape, probabilities, firefighter_configs) ==
    [landscape |-> landscape, probabilities |-> probabilities,
     firefighters |-> firefighter_configs]

\* <<ignition, transmission, respawn>> in tenths of a percent: none, the
\* defaults of GraphForest (1%, 30%, 10%), and each of ignition and respawn
\* certain
DefaultProbabilities == <<10, 300, 100>>
SureProbabilities == {<<0, 0, 0>>, <<1000, 0, 0>>, <<0, 0, 1000>>}

\* <<number, skill>>
SimFirefighters == {<<0, 50>>, <<1, 50>>, <<2, 50>>, <<2, 0>>}

\* ignition 50% and respawn 50%, the sum that prob_menu still accepts: a
\* regrown tree can stand next to a burning one
BurnAndRegrow == <<500, 0, 500>>

\* one firefighter whose skill 16 lets a burning tree lose 4 per step
SlowFirefighter == <<1, 16>>

\* the runs that are simulated: every roll open on the graph of one edge, the
\* rolls that are certain on the larger graphs
SimScenarios ==
    {<<e, Config(l, p, f)>> :
        e \in {Edge2}, l \in {50, 100},
        p \in SureProbabilities \cup {DefaultProbabilities},
        f \in SimFirefighters}
    \cup {<<e, Config(l, p, f)>> :
            e \in {Path3, Cycle4}, l \in {50, 100}, p \in SureProbabilities,
            f \in SimFirefighters}
    \cup {<<Edge2, Config(50, <<1000, 0, 0>>, SlowFirefighter)>>}
    \cup {<<Edge2, Config(50, BurnAndRegrow, <<0, 50>>)>>}

NodesOf(edges) == KeySet(read_graph_positions(edges, <<>>))

\* the random choices of spawn_firefighters
SpawnChoices(edges, cfg) == [1..cfg.firefighters[1] -> NodesOf(edges)]

NoTree == Treepatch(0, <<>>, FALSE, 0)

UpdateIdle ==
    /\ pc = "idle"
    /\ idx = 0
    /\ firefighter_to_move = <<>>
    /\ landpatch = Unbound

UnitIdle ==
    /\ t_tree = NoTree
    /\ t_pre = NoTree
    /\ t_arg = 0
    /\ t_op = "none"

\* no GraphBuilder at work outside Land.__init__
NoBuilder == [number_of_trees |-> 0, number_of_rocks |-> 0]

\* the harnesses and menus of the forest program before their first step
ForestIdle ==
    /\ completed_updates = 0
    /\ test_lit = 0
    /\ builder = NoBuilder
    /\ r_lines = <<>>
    /\ r_edgeslist = <<>>
    /\ r_positions = <<>>
    /\ r_reports = 0
    /\ initial_landscape_input = 0
    /\ tree_iteration_data = <<>>
    /\ rock_iteration_data = <<>>
    /\ wildfire_iteration_data = <<>>
    /\ sim_args = <<>>

\* no Graph of the graph simulation has been constructed
NoGraph ==
    /\ g_edges = <<>>
    /\ vertecies = <<>>
    /\ val_map = <<>>
    /\ frustration_metric = None
    /\ max_violation_metrics = <<>>

AuxIdle ==
    /\ ForestIdle
    /\ NoGraph

\* the variables of the Land take the values that Land.__init__ leaves
LandIs(land, cfg, run_no) ==
    /\ configs = cfg
    /\ edgelist = land.edgelist
    /\ positions = land.positions
    /\ heap = land.heap
    /\ nbr = land.nbr
    /\ land_patches = land.land_patches
    /\ firefighters = land.firefighters
    /\ validated = land.validated
    /\ error = land.error
    /\ run = run_no

\* Land.__init__ leaves these values behind
LandBecomes(land, cfg, run_no) ==
    /\ configs' = cfg
    /\ edgelist' = land.edgelist
    /\ positions' = land.positions
    /\ heap' = land.heap
    /\ nbr' = land.nbr
    /\ land_patches' = land.land_patches
    /\ firefighters' = land.firefighters
    /\ validated' = land.validated
    /\ error' = land.error
    /\ run' = run_no

-----------------------------------------------------------------------------
(* The simulation: the first Land of the process and its updates *)

Init ==
    /\ \E sc \in SimScenarios :
       \E choices \in SpawnChoices(sc[1], sc[2]) :
          LandIs(LandInit(<<>>, <<>>, <<>>, <<>>, 1, sc[2], sc[1], choices, TRUE),
                 sc[2], 1)
    /\ UpdateIdle
    /\ UnitIdle
    /\ AuxIdle

Next ==
    \/ BeginUpdate
    \/ Decide
    \/ DecideDone
    \/ Relocate
    \/ RelocateDone
    \/ PatchStep
    \/ EndUpdate

Spec == Init /\ [][Next]_vars

-----------------------------------------------------------------------------
(* The process: GraphForest().menu(), key 7 pressed again and again *)

\* GraphForest.__init__: the default configuration; no Land yet, and the two
\* default dictionaries of Land.__init__ are empty
ProcessStart ==
    /\ configs = Config(80, DefaultProbabilities, <<2, 50>>)
    /\ edgelist = <<>>
    /\ positions = <<>>
    /\ heap = <<>>
    /\ nbr = <<>>
    /\ land_patches = <<>>
    /\ firefighters = <<>>
    /\ run = 0
    /\ validated = "none"
    /\ error = "none"

\* lc.Land(self.config_settings) on the graph edges under configuration cfg
Construct(edges, cfg) ==
    /\ pc = "idle"
    /\ \E choices \in SpawnChoices(edges, cfg), planar \in BOOLEAN :
          LandBecomes(LandInit(heap, nbr, land_patches, firefighters, run + 1,
                               cfg, edges, choices, planar),
                      cfg, run + 1)
    /\ UNCHANGED <<updateVars, unitVars, auxVars>>

Other2 == <<<<3, 4>>>>

BuildScenarios ==
    {<<e, Config(l, DefaultProbabilities, f)>> :
        e \in {Edge2, Path3, Other2}, l \in {50, 100},
        f \in {<<0, 50>>, <<2, 50>>}}

ConstructLand ==
    /\ run < MaxRuns
    /\ \E sc \in BuildScenarios : Construct(sc[1], sc[2])

InitBuild ==
    /\ ProcessStart
    /\ UpdateIdle
    /\ UnitIdle
    /\ AuxIdle

NextBuild == ConstructLand

SpecBuild == InitBuild /\ [][NextBuild]_vars

-----------------------------------------------------------------------------
(* Graphs: the first Land of a process on every short edge list *)

Pairs == (1..MaxNode) \X (1..MaxNode)

\* the edge lists of 1..MaxEdges edges over the nodes 1..MaxNode, in every
\* order and direction, with repeated edges and self-loops, and the cycle
GenEdgeLists ==
    UNION {[1..k -> Pairs] : k \in 1..MaxEdges} \cup {Cycle4, Path3}

ConstructFirst ==
    /\ run = 0
    /\ \E edges \in GenEdgeLists, l \in {50, 100} :
          Construct(edges, Config(l, DefaultProbabilities, <<0, 50>>))

NextGraph == ConstructFirst

SpecGraph == InitBuild /\ [][NextGraph]_vars

\* the ids of the table that are neighbours of id a
NeighbourIds(a) == KeySet(get_neighbors(heap, nbr, DictGet(land_patches, a)))

\* the ids that a path of the neighbour relation joins to an id of seen
RECURSIVE Component(_)
Component(seen) ==
    LET more == seen \cup UNION {NeighbourIds(a) : a \in seen}
    IN  IF more = seen THEN seen ELSE Component(more)

\* the patch graph is connected
Connected ==
    \A a \in Range(positions) : Component({a}) = Range(positions)

-----------------------------------------------------------------------------
(* Units: Firefighter.fight_fire and Treepatch.set_tree_stats on one tree *)

\* firefighters_menu: the skill is 0..MaxSkill
MaxSkill == 100
\* the largest argument of the unit calls
MaxArg == 300

UnitTrees ==
    {[Treepatch(1, <<1, 1>>, lit, 10) EXCEPT !.tree_stats = stats] :
        stats \in tree_stats_min..tree_stats_max, lit \in BOOLEAN}

InitUnit ==
    /\ ProcessStart
    /\ UpdateIdle
    /\ t_tree \in UnitTrees
    /\ t_pre = t_tree
    /\ t_arg \in 0..MaxArg
    /\ t_op = "none"
    /\ AuxIdle

\* Firefighter(0, t_arg).fight_fire(t_tree)
CallFightFire ==
    /\ t_op = "none"
    /\ t_arg <= MaxSkill
    /\ t_tree' = fight_fire(t_arg, t_tree)
    /\ t_op' = "fight_fire"
    /\ UNCHANGED <<landVars, updateVars, t_pre, t_arg, auxVars>>

\* t_tree.set_tree_stats(t_arg)
CallSetTreeStats ==
    /\ t_op = "none"
    /\ t_tree' = set_tree_stats(t_tree, t_arg)
    /\ t_op' = "set_tree_stats"
    /\ UNCHANGED <<landVars, updateVars, t_pre, t_arg, auxVars>>

NextUnit == CallFightFire \/ CallSetTreeStats

SpecUnit == InitUnit /\ [][NextUnit]_vars

-----------------------------------------------------------------------------
(* Fire test: a Land whose test lights one Treepatch before the first update *)

\* the test calls Land.update at most MaxUpdates times
MaxUpdates == 2

\* a ratio above 100 is the only one for which GraphBuilder makes every patch
\* a Treepatch
FullForest == 101

\* <<ignition, transmission, respawn>>: transmission certain, and none
LitProbabilities == {<<0, 1000, 0>>, <<0, 0, 0>>}

\* the star with centre 1 and the leaves 2, 3, 4
Star4 == <<<<1, 2>>, <<1, 3>>, <<1, 4>>>>

LitScenarios ==
    {<<e, Config(l, p, f)>> :
        e \in {Cycle4, Path3}, l \in {100, FullForest}, p \in LitProbabilities,
        f \in {<<0, 50>>, <<1, 50>>}}
    \cup {<<Star4, Config(FullForest, <<0, 0, 0>>, <<2, 50>>)>>}

InitLit ==
    /\ \E sc \in LitScenarios :
       \E choices \in SpawnChoices(sc[1], sc[2]) :
          LandIs(LandInit(<<>>, <<>>, <<>>, <<>>, 1, sc[2], sc[1], choices, TRUE),
                 sc[2], 1)
    /\ UpdateIdle
    /\ UnitIdle
    /\ AuxIdle

\* the test sets one Treepatch of the patch table lit: set_lit_state(True)
TestLight ==
    /\ pc = "idle"
    /\ test_lit = 0
    /\ completed_updates = 0
    /\ \E k \in 1..Len(land_patches) :
          /\ IsTree(heap[land_patches[k][2]])
          /\ heap' = [heap EXCEPT ![land_patches[k][2]].lit_state = TRUE]
          /\ test_lit' = land_patches[k][1]
    /\ UNCHANGED <<configs, edgelist, positions, nbr, land_patches,
                   firefighters, run, validated, error, updateVars, unitVars,
                   completed_updates, builder, readVars,
                   initial_landscape_input, reportVars, graphVars>>

\* the test calls Land.update
TestUpdate ==
    /\ test_lit # 0
    /\ completed_updates < MaxUpdates
    /\ UpdateCall
    /\ completed_updates' = completed_updates + 1
    /\ UNCHANGED test_lit

NextLit ==
    \/ TestLight
    \/ TestUpdate
    \/ Decide
    \/ DecideDone
    \/ Relocate
    \/ RelocateDone
    \/ PatchStep
    \/ EndUpdate

SpecLit == InitLit /\ [][NextLit]_vars

-----------------------------------------------------------------------------
(* Reruns: Lands constructed one after the other in one process, each updated *)

\* the configurations of the Lands that are constructed and then updated
RerunScenarios ==
    {<<Edge2, Config(50, <<0, 0, 1000>>, <<0, 50>>)>>,
     <<Edge2, Config(50, <<1000, 0, 0>>, <<1, 50>>)>>,
     <<Other2, Config(50, <<0, 0, 0>>, <<0, 50>>)>>,
     <<Other2, Config(50, <<0, 0, 0>>, <<1, 50>>)>>}

\* menu key 7: the next Land, once the simulation of the last one is over
ConstructNext ==
    /\ run < MaxRuns
    /\ \E sc \in RerunScenarios : Construct(sc[1], sc[2])

NextRerun ==
    \/ ConstructNext
    \/ BeginUpdate
    \/ Decide
    \/ DecideDone
    \/ Relocate
    \/ RelocateDone
    \/ PatchStep
    \/ EndUpdate

SpecRerun == InitBuild /\ [][NextRerun]_vars

-----------------------------------------------------------------------------
(* Fill: the first loop of GraphBuilder.create_landpatches, patch by patch *)

\* the graph that is built has the nodes 1..FillNodes, read in this order
FillNodes == 100

\* the forest ratios of the builds
FillLandscapes == {0, 1, 50, 80, 100}

\* the edge list of a Land built earlier in the process
Far2 == <<<<201, 202>>>>

\* the patches that this GraphBuilder has created so far
Created == builder.number_of_trees + builder.number_of_rocks

\* what Land.__init__ finds in the first Land of a process
NoLand ==
    [heap |-> <<>>, nbr |-> <<>>, land_patches |-> <<>>, firefighters |-> <<>>,
     edgelist |-> <<>>, positions |-> <<>>, validated |-> "none",
     error |-> "none"]

\* Land.__init__ has made the GraphBuilder and build_graph has read the
\* graph: in the first Land of the process, or in the second one, after a Land
\* on the edges Far2
InitFill ==
    /\ \E l \in FillLandscapes, second \in BOOLEAN :
          LET cfg == Config(l, DefaultProbabilities, <<0, 50>>)
          IN  IF second
              THEN LandIs(LandInit(<<>>, <<>>, <<>>, <<>>, 1, cfg, Far2, <<>>, TRUE),
                          cfg, 2)
              ELSE LandIs(NoLand, cfg, 1)
    /\ UpdateIdle
    /\ UnitIdle
    /\ AuxIdle

\* one pass of the first loop: create_landpatch(patch_id, positions[patch_id])
CreateNext ==
    /\ Created < FillNodes
    /\ LET w == [heap |-> heap, nbr |-> nbr, land_patches |-> land_patches,
                 number_of_trees |-> builder.number_of_trees,
                 number_of_rocks |-> builder.number_of_rocks]
           made == create_landpatch(w, run, Created + 1, configs)
       IN  /\ heap' = made.heap
           /\ nbr' = made.nbr
           /\ land_patches' = made.land_patches
           /\ builder' = [number_of_trees |-> made.number_of_trees,
                          number_of_rocks |-> made.number_of_rocks]
    /\ UNCHANGED <<configs, edgelist, positions, firefighters, run, validated,
                   error, updateVars, unitVars, testVars, readVars,
                   initial_landscape_input, reportVars, graphVars>>

NextFill == CreateNext

SpecFill == InitFill /\ [][NextFill]_vars

-----------------------------------------------------------------------------
(* GraphReader.read_graph, line by line; a line is a sequence of characters *)

\* a file has at most MaxLines lines of at most MaxLineLen characters
MaxLines == 2
MaxLineLen == 3

\* the characters of the lines: digits, the separator, the comment sign, blank
Chars == {"1", "2", ",", "#", " "}

Lines == UNION {[1..k -> Chars] : k \in 0..MaxLineLen}

\* the characters that str.strip removes
Whitespace == {" ", "\n"}

DigitChars == <<"0", "1", "2", "3", "4", "5", "6", "7", "8", "9">>
DigitValue(c) == (CHOOSE i \in 1..10 : DigitChars[i] = c) - 1

\* str.strip
RECURSIVE lstrip(_)
lstrip(s) ==
    IF s # <<>> /\ Head(s) \in Whitespace THEN lstrip(Tail(s)) ELSE s

RECURSIVE rstrip(_)
rstrip(s) ==
    IF s # <<>> /\ s[Len(s)] \in Whitespace
    THEN rstrip(SubSeq(s, 1, Len(s) - 1))
    ELSE s

strip(s) == rstrip(lstrip(s))

\* str.split(sep): the fields between the separators
RECURSIVE split(_, _)
split(s, sep) ==
    IF \A i \in 1..Len(s) : s[i] # sep
    THEN <<s>>
    ELSE LET i == CHOOSE k \in 1..Len(s) :
                     s[k] = sep /\ \A j \in 1..(k - 1) : s[j] # sep
         IN  <<SubSeq(s, 1, i - 1)>> \o split(SubSeq(s, i + 1, Len(s)), sep)

\* str.isdigit: not empty and digits only
isdigit(s) == s # <<>> /\ \A i \in 1..Len(s) : s[i] \in Range(DigitChars)

\* int(s) of a string of digits
RECURSIVE int(_)
int(s) ==
    IF s = <<>> THEN 0
    ELSE 10 * int(SubSeq(s, 1, Len(s) - 1)) + DigitValue(s[Len(s)])

\* read_graph has opened the file; nothing is read yet
InitRead ==
    /\ ProcessStart
    /\ UpdateIdle
    /\ UnitIdle
    /\ AuxIdle

\* one pass of the loop over graph_lines, for the next line of the file;
\* readlines leaves the line feed at the end of the line
ReadLine ==
    /\ Len(r_lines) < MaxLines
    /\ \E line \in Lines :
          LET graph_line == line \o <<"\n">>
              patches_str == split(graph_line, ",")
          IN  /\ r_lines' = Append(r_lines, line)
              /\ IF Len(patches_str) = 2
                 THEN IF isdigit(strip(patches_str[1]))
                         /\ isdigit(strip(patches_str[2]))
                      THEN LET patch_a == strip(patches_str[1])
                               patch_b == strip(patches_str[2])
                           IN  /\ r_edgeslist' = Append(r_edgeslist,
                                      <<int(patch_a), int(patch_b)>>)
                               /\ r_positions' =
                                      DictPut(DictPut(r_positions, int(patch_a), 0),
                                              int(patch_b), 0)
                               /\ UNCHANGED r_reports
                      ELSE /\ r_reports' = r_reports + 1
                           /\ UNCHANGED <<r_edgeslist, r_positions>>
                 ELSE UNCHANGED <<r_edgeslist, r_positions, r_reports>>
    /\ UNCHANGED <<landVars, updateVars, unitVars, testVars, builder,
                   initial_landscape_input, reportVars, graphVars>>

NextRead == ReadLine

SpecRead == InitRead /\ [][NextRead]_vars

-----------------------------------------------------------------------------
(* Menu: landscape_menu (key 2 of the main menu), then the first Land *)

\* the ratios entered for option 3
MenuRatios == {0, 1, 25, 50, 75, 99, 100}

\* landscape_menu: config_settings['landscape'] after the key and, for
\* option 3, the ratio have been entered; a ValueError leaves it as it was
landscape_menu(landscape, key, fixed_ratio_input) ==
    IF key = 1 \/ key = 2 THEN key
    ELSE IF key = 3 /\ 1 <= fixed_ratio_input /\ fixed_ratio_input < 100
         THEN fixed_ratio_input
         ELSE landscape

LandscapeMenu ==
    /\ run = 0
    /\ \E key \in 1..4, fixed_ratio_input \in MenuRatios :
          /\ configs' = [configs EXCEPT
                 !.landscape = landscape_menu(@, key, fixed_ratio_input)]
          /\ initial_landscape_input' = key
    /\ UNCHANGED <<edgelist, positions, heap, nbr, land_patches, firefighters,
                   run, validated, error, updateVars, unitVars, testVars,
                   builder, readVars, reportVars, graphVars>>

\* key 7: lc.Land(self.config_settings)
MenuConstruct ==
    /\ run = 0
    /\ \E edges \in {Edge2, Other2, Path3, Cycle4} : Construct(edges, configs)

NextMenu == LandscapeMenu \/ MenuConstruct

SpecMenu == InitBuild /\ [][NextMenu]_vars

-----------------------------------------------------------------------------
(* Reporting: a SimReporting object and its update_sim_data calls *)

\* the patch counts passed to update_sim_data
MaxCount == 2

\* the number of update_sim_data calls on one object
MaxCalls == 2

\* a series that receives the new value at its head
update_sim_data_prepend(data, value) == <<value>> \o data

\* SimReporting.update_sim_data(trees, rocks, wildfire): one value is appended
\* to each of the three series
update_sim_data(data, value) == Append(data, value)

\* SimReporting(): the three series are empty lists
InitReport ==
    /\ ProcessStart
    /\ UpdateIdle
    /\ UnitIdle
    /\ AuxIdle

UpdateSimData ==
    /\ Len(sim_args) < MaxCalls
    /\ \E trees \in 0..MaxCount, rocks \in 0..MaxCount, wildfire \in 0..MaxCount :
          /\ tree_iteration_data' = update_sim_data(tree_iteration_data, trees)
          /\ rock_iteration_data' = update_sim_data(rock_iteration_data, rocks)
          /\ wildfire_iteration_data' =
                 update_sim_data(wildfire_iteration_data, wildfire)
          /\ sim_args' = Append(sim_args, <<trees, rocks, wildfire>>)
    /\ UNCHANGED <<landVars, updateVars, unitVars, testVars, builder, readVars,
                   initial_landscape_input, graphVars>>

NextReport == UpdateSimData

SpecReport == InitReport /\ [][NextReport]_vars

-----------------------------------------------------------------------------
(* Patches: update() and mutate() on one patch, for every value of the roll *)

\* the probabilities of the patch, in tenths of a percent
UnitProbs == {0, DefaultProb, 300, 1000}

UnitPatches ==
    {[Treepatch(1, <<1, 1>>, lit, prob) EXCEPT !.tree_stats = stats] :
        stats \in tree_stats_min..tree_stats_max, lit \in BOOLEAN,
        prob \in UnitProbs}
    \cup {Rockpatch(1, <<1, 1>>, prob) : prob \in UnitProbs}

\* random.randint(1, 100) <= prob where randint returns r
Roll(r, prob) == 10 * r <= prob

\* the probability that update() of patch p compares its roll with
UpdateProb(p) == IF IsTree(p) THEN p.prob_autcombustion ELSE p.prob_treepatch

\* t_tree is the patch, t_arg the value that random.randint will return
InitPatch ==
    /\ ProcessStart
    /\ UpdateIdle
    /\ t_tree \in UnitPatches
    /\ t_pre = t_tree
    /\ t_arg \in 1..RollMax
    /\ t_op = "none"
    /\ AuxIdle

\* t_tree.update(); t_op keeps the value returned
CallUpdate ==
    /\ t_op = "none"
    /\ LET res == patch_update(t_tree, Roll(t_arg, UpdateProb(t_tree)))
       IN  /\ t_tree' = res.patch
           /\ t_op' = IF res.mutate THEN "update_True" ELSE "update_False"
    /\ UNCHANGED <<landVars, updateVars, t_pre, t_arg, auxVars>>

\* t_tree.mutate(), called by Land.mutate_landpatch when update() returned True
CallMutate ==
    /\ t_op = "update_True"
    /\ t_tree' = mutate(t_tree)
    /\ t_op' = "mutate"
    /\ UNCHANGED <<landVars, updateVars, t_pre, t_arg, auxVars>>

NextPatch == CallUpdate \/ CallMutate

SpecPatch == InitPatch /\ [][NextPatch]_vars

-----------------------------------------------------------------------------
(* Simulation reports: GraphForest.start_simulation on the first Land *)

\* config_settings['iterations']
MaxIterations == 2

\* Land.get_colour_maps: the colours of the patches that have one, by id,
\* and the ids of the patches whose colour is None
RECURSIVE ColourMaps(_, _, _)
ColourMaps(h, patches, maps) ==
    IF patches = <<>> THEN maps
    ELSE LET land_patch == h[Head(patches)]
         IN  ColourMaps(h, Tail(patches),
                IF land_patch.color # None
                THEN [maps EXCEPT !.colour_map =
                         DictPut(@, land_patch.patch_id, land_patch.color)]
                ELSE [maps EXCEPT !.no_colour_map =
                         DictPut(@, land_patch.patch_id, None)])

get_colour_maps(h, table) ==
    ColourMaps(h, DictValues(table), [colour_map |-> <<>>, no_colour_map |-> <<>>])

\* list(colour_map.values()).count(value)
Count(map, value) == Cardinality({k \in 1..Len(map) : map[k][2] = value})

\* the three numbers that start_simulation passes to update_sim_data
rock_population(h, table) == Len(get_colour_maps(h, table).no_colour_map)
tree_population(h, table) == Count(get_colour_maps(h, table).colour_map, 256)
wildfires(h, table) ==
    Len(get_colour_maps(h, table).colour_map)
        - rock_population(h, table) - tree_population(h, table)

\* self.sim_reporting.update_sim_data(trees=..., rocks=..., wildfire=...) on
\* the patches h, table
Report(h, table) ==
    /\ tree_iteration_data' =
           update_sim_data(tree_iteration_data, tree_population(h, table))
    /\ rock_iteration_data' =
           update_sim_data(rock_iteration_data, rock_population(h, table))
    /\ wildfire_iteration_data' =
           update_sim_data(wildfire_iteration_data, wildfires(h, table))
    /\ sim_args' = Append(sim_args, <<tree_population(h, table),
                                      rock_population(h, table),
                                      wildfires(h, table)>>)

\* the Lands that are simulated with reports
ReportScenarios ==
    {<<e, Config(50, p, f)>> :
        e \in {Edge2, Path3}, p \in SureProbabilities \cup {BurnAndRegrow},
        f \in {<<0, 50>>, <<1, 50>>}}

InitSim ==
    /\ \E sc \in ReportScenarios :
       \E choices \in SpawnChoices(sc[1], sc[2]) :
          LandIs(LandInit(<<>>, <<>>, <<>>, <<>>, 1, sc[2], sc[1], choices, TRUE),
                 sc[2], 1)
    /\ UpdateIdle
    /\ UnitIdle
    /\ AuxIdle

\* start_simulation up to its loop: the report of the initial state
SimStart ==
    /\ pc = "idle"
    /\ sim_args = <<>>
    /\ Report(heap, land_patches)
    /\ UNCHANGED <<landVars, updateVars, unitVars, testVars, builder, readVars,
                   initial_landscape_input, graphVars>>

\* the loop calls land.update()
SimUpdate ==
    /\ Len(sim_args) = completed_updates + 1
    /\ completed_updates < MaxIterations
    /\ UpdateCall
    /\ UNCHANGED testVars

\* land.update() returns, and the loop reports and counts the update
SimReport ==
    /\ pc = "patches"
    /\ idx > Len(land_patches)
    /\ pc' = "idle"
    /\ idx' = 0
    /\ firefighter_to_move' = <<>>
    /\ Report(heap, land_patches)
    /\ completed_updates' = completed_updates + 1
    /\ UNCHANGED <<landVars, landpatch, unitVars, test_lit, builder, readVars,
                   initial_landscape_input, graphVars>>

NextSim ==
    \/ SimStart
    \/ SimUpdate
    \/ Decide
    \/ DecideDone
    \/ Relocate
    \/ RelocateDone
    \/ PatchStep
    \/ SimReport

SpecSim == InitSim /\ [][NextSim]_vars

-----------------------------------------------------------------------------
(* GraphSimProgram: class Graph with the max violation update procedure *)

\* generate_random_graph is asked for at most MaxRandom edges
MaxRandom == 2
\* run_update_procedure is called at most MaxSteps times
MaxSteps == 3

\* str(site) of a site below 10
str(site) == <<DigitChars[site + 1]>>

\* max_vertex = None: no name
NoVertex == <<>>

\* models.Vertex: a name, an empty neighbour list and a colour
Vertex(name) == [name |-> name, neighbours |-> <<>>, color |-> None]

\* Graph.set_initial_coloring_pattern: float(0) for colour key 1, float(1) for
\* colour key 2, random.randint(0, 1) else; draw[site] is the last draw made
\* for a site
RECURSIVE set_initial_coloring_pattern(_, _, _, _)
set_initial_coloring_pattern(edges, colour_key, draw, colors) ==
    IF edges = <<>> THEN colors
    ELSE LET edge == Head(edges)
             colour(site) == IF colour_key = 1 THEN 0
                             ELSE IF colour_key = 2 THEN 1
                             ELSE draw[site]
         IN  set_initial_coloring_pattern(Tail(edges), colour_key, draw,
                DictPut(DictPut(colors, edge[1], colour(edge[1])),
                        edge[2], colour(edge[2])))

\* vertex.neighbours.append(name) on the vertex called vertex
AppendNeighbour(vs, vertex, name) ==
    DictPut(vs, vertex, [DictGet(vs, vertex) EXCEPT !.neighbours = Append(@, name)])

\* self.vertecies[name] for the name of a site, created if it is not there
WithVertex(vs, name) == IF HasKey(vs, name) THEN vs ELSE DictPut(vs, name, Vertex(name))

\* first loop of Graph.initialize_vertecies: the vertices and their neighbour lists
RECURSIVE LinkVertecies(_, _)
LinkVertecies(vs, edges) ==
    IF edges = <<>> THEN vs
    ELSE LET vertex0 == str(Head(edges)[1])
             vertex1 == str(Head(edges)[2])
             both == WithVertex(WithVertex(vs, vertex0), vertex1)
         IN  LinkVertecies(
                 AppendNeighbour(AppendNeighbour(both, vertex0, vertex1),
                                 vertex1, vertex0),
                 Tail(edges))

\* Graph.initialize_vertecies: each vertex gets its colour from val_map
initialize_vertecies(edges, colors) ==
    LET vs == LinkVertecies(<<>>, edges)
    IN  [k \in 1..Len(vs) |->
            <<vs[k][1], [vs[k][2] EXCEPT !.color = DictGet(colors, int(vs[k][1]))]>>]

\* the names that the search of Graph.validate_graph has done
RECURSIVE Searched(_, _)
Searched(vs, done) ==
    LET more == done \cup UNION {Range(DictGet(vs, subject).neighbours) : subject \in done}
    IN  IF more = done THEN done ELSE Searched(vs, more)

\* Graph.validate_graph
graph_validate_graph(vs, edges) ==
    Cardinality(Searched(vs, {str(edges[1][1])})) = Len(vs)

\* the loop of Graph.local_metric
RECURSIVE NeighbourSum(_, _, _)
NeighbourSum(vs, local_val, neighbours) ==
    IF neighbours = <<>> THEN 0
    ELSE local_val * (1 - 2 * DictGet(vs, Head(neighbours)).color)
             + NeighbourSum(vs, local_val, Tail(neighbours))

\* Graph.local_metric without the vertex's own sign: the neighbours' signs are
\* summed
local_metric_of_neighbours(vs, vertex_name) ==
    LET local_vertex == DictGet(vs, vertex_name)
    IN  NeighbourSum(vs, 1, local_vertex.neighbours)

\* Graph.local_metric
local_metric(vs, vertex_name) ==
    LET local_vertex == DictGet(vs, vertex_name)
    IN  NeighbourSum(vs, 1 - 2 * local_vertex.color, local_vertex.neighbours)
\* Graph.global_metric: 0.5 * the sum of the local metrics; the sum is even,
\* because every edge appends one entry to each of two neighbour lists, or
\* two entries to one
RECURSIVE MetricSum(_, _)
MetricSum(vs, k) ==
    IF k = 0 THEN 0 ELSE MetricSum(vs, k - 1) + local_metric(vs, vs[k][1])

global_metric(vs) == MetricSum(vs, Len(vs)) \div 2

\* the loop of Graph.update_max_violation from the k-th vertex on
RECURSIVE MaxScan(_, _, _, _)
MaxScan(vs, k, max_localaction, max_vertex) ==
    IF k > Len(vs) THEN max_vertex
    ELSE IF max_localaction < local_metric(vs, vs[k][1])
         THEN MaxScan(vs, k + 1, local_metric(vs, vs[k][1]), vs[k][1])
         ELSE MaxScan(vs, k + 1, max_localaction, max_vertex)

\* max_vertex of Graph.update_max_violation
max_vertex(vs) == MaxScan(vs, 1, 0, NoVertex)

\* Graph.update_max_violation as an earlier version might have been written:
\* the first vertex of positive local metric is taken
update_first_violation(vs, vm) ==
    LET positive == {k \in 1..Len(vs) : local_metric(vs, vs[k][1]) > 0}
        first == vs[CHOOSE k \in positive : \A j \in positive : k <= j][1]
        color == 1 - DictGet(vs, first).color
    IN  IF positive = {} THEN [vertecies |-> vs, val_map |-> vm]
        ELSE [vertecies |-> DictPut(vs, first, [DictGet(vs, first) EXCEPT !.color = color]),
              val_map |-> DictPut(vm, int(first), color)]

\* Graph.update_max_violation
update_max_violation(vs, vm) ==
    LET name == max_vertex(vs)
        color == 1 - DictGet(vs, name).color
    IN  IF name # NoVertex
        THEN [vertecies |-> DictPut(vs, name, [DictGet(vs, name) EXCEPT !.color = color]),
              val_map |-> DictPut(vm, int(name), color)]
        ELSE [vertecies |-> vs, val_map |-> vm]

\* Graph.generate_random_graph(n_edges): n_edges + 1 edges on the sites
\* 0..n_edges, each from the site where the last edge ended to another site
RECURSIVE Walks(_, _)
Walks(n_edges, items_count) ==
    IF items_count < 0 THEN {<<site0>> : site0 \in 0..n_edges}
    ELSE UNION {{Append(walk, site1) : site1 \in 0..n_edges \ {walk[Len(walk)]}} :
                   walk \in Walks(n_edges, items_count - 1)}

generate_random_graph(n_edges) ==
    {[k \in 1..(Len(walk) - 1) |-> <<walk[k], walk[k + 1]>>] :
        walk \in Walks(n_edges, n_edges)}

\* graph files: a path, an edge written twice, and edges from a site to itself
GraphPath4 == <<<<1, 2>>, <<2, 3>>, <<3, 4>>>>
Twice3 == <<<<1, 2>>, <<1, 2>>, <<2, 3>>>>
Loop1 == <<<<1, 1>>>>
Loop2 == <<<<1, 1>>, <<1, 2>>>>
GraphFiles == {GraphPath4, Cycle4, Star4, Twice3, Loop1, Loop2}

\* the edge lists that the Graphs are made of
GraphEdges == GraphFiles \cup UNION {generate_random_graph(n) : n \in 1..MaxRandom}

\* the sites of an edge list
SitesOf(edges) == UNION {{edges[k][1], edges[k][2]} : k \in 1..Len(edges)}

\* GraphSim before menu key 6: no Graph yet
InitGraphSim ==
    /\ ProcessStart
    /\ UpdateIdle
    /\ UnitIdle
    /\ AuxIdle

\* Graph.__init__ with procedure key 2: the Graph exists if validate_graph holds
ConstructGraph ==
    /\ g_edges = <<>>
    /\ \E edges \in GraphEdges, colour_key \in 1..3 :
       \E draw \in [SitesOf(edges) -> {0, 1}] :
          LET colors == set_initial_coloring_pattern(edges, colour_key, draw, <<>>)
          IN  /\ g_edges' = edges
              /\ val_map' = colors
              /\ vertecies' = initialize_vertecies(edges, colors)
              /\ graph_validate_graph(vertecies', edges)
    /\ UNCHANGED <<frustration_metric, max_violation_metrics>>
    /\ UNCHANGED <<landVars, updateVars, unitVars, testVars, builder, readVars,
                   initial_landscape_input, reportVars>>

\* a call of Graph.update_max_violation
UpdateMaxViolation ==
    /\ g_edges # <<>>
    /\ \E updated \in {update_max_violation(vertecies, val_map)} :
          /\ vertecies' = updated.vertecies
          /\ val_map' = updated.val_map
    /\ UNCHANGED <<g_edges, frustration_metric, max_violation_metrics>>
    /\ UNCHANGED <<landVars, updateVars, unitVars, testVars, builder, readVars,
                   initial_landscape_input, reportVars>>

\* a call of Graph.run_update_procedure, as GraphSim.run_simulation makes it
RunUpdateProcedure ==
    /\ g_edges # <<>>
    /\ Len(max_violation_metrics) < MaxSteps
    /\ frustration_metric' = global_metric(vertecies)
    /\ max_violation_metrics' = Append(max_violation_metrics, global_metric(vertecies))
    /\ \E updated \in {update_max_violation(vertecies, val_map)} :
          /\ vertecies' = updated.vertecies
          /\ val_map' = updated.val_map
    /\ UNCHANGED g_edges
    /\ UNCHANGED <<landVars, updateVars, unitVars, testVars, builder, readVars,
                   initial_landscape_input, reportVars>>

NextGraphSim ==
    \/ ConstructGraph
    \/ UpdateMaxViolation
    \/ RunUpdateProcedure

SpecGraphSim == InitGraphSim /\ [][NextGraphSim]_vars

\* the caller repeats the update: a call that changes the colouring is made
\* in the end
SpecGraphSimFair == SpecGraphSim /\ WF_vars(UpdateMaxViolation)

-----------------------------------------------------------------------------
(* Properties *)

\* the objects of the patch table
TableRefs == Range(DictValues(land_patches))
\* the Treepatch objects of the patch table
TableTrees == {r \in TableRefs : IsTree(heap[r])}
\* the ids that the edge list joins to id a
EdgeNeighbours(a) ==
    {e[2] : e \in {x \in Range(edgelist) : x[1] = a}}
        \cup {e[1] : e \in {x \in Range(edgelist) : x[2] = a}}

\* C1: at every point of every run, each Treepatch of the patch table has
\* its health tree_stats in 0..256.
C1_HealthInRange ==
    \A r \in TableTrees :
        /\ heap[r].tree_stats >= 0
        /\ heap[r].tree_stats <= 256

\* a lit tree has burnt down to less than one burn step between two updates
C1_Witness ==
    /\ pc = "idle"
    /\ \E r \in TableTrees :
          heap[r].lit_state /\ heap[r].tree_stats < BurnStep

\* C2: a Treepatch of the patch table whose health is 256 is not lit; this
\* holds at every point, so also between two updates.
C2_FullHealthUnlit ==
    \A r \in TableTrees :
        heap[r].tree_stats = 256 => ~heap[r].lit_state

\* a firefighter has just brought a burning tree to 256: the tree is no
\* longer lit, its colour is still the one of a lit tree
C2_Witness ==
    /\ pc = "decide"
    /\ \E r \in TableTrees :
          /\ heap[r].tree_stats = 256
          /\ ~heap[r].lit_state
          /\ heap[r].color < 0
          /\ heap[r].firefighter

\* C3: every entry of every neighbour dictionary refers to the object that
\* the patch table holds under that id, so a lookup through get_neighbors
\* sees the replacement of a mutated patch.
C3_NeighboursSeeTable ==
    \A r \in TableRefs :
        \A k \in 1..Len(get_neighbors(heap, nbr, r)) :
            get_neighbors(heap, nbr, r)[k][2]
                = DictGet(land_patches, get_neighbors(heap, nbr, r)[k][1])

\* C4: a step that changes the patch table replaces one entry; the new
\* object has the id of the outgoing one, is of the other variant, has the
\* same neighbour ids in the same order, is stored under that id, and every
\* other entry of the table is the same.
C4_MutateKeepsIdAndNeighbours ==
    [][land_patches' # land_patches =>
        /\ Len(land_patches') = Len(land_patches)
        /\ \E k \in 1..Len(land_patches) :
              /\ land_patches'[k][1] = land_patches[k][1]
              /\ land_patches'[k][2] # land_patches[k][2]
              /\ heap'[land_patches'[k][2]].patch_id = land_patches[k][1]
              /\ heap'[land_patches'[k][2]].patch_id
                    = heap[land_patches[k][2]].patch_id
              /\ heap'[land_patches'[k][2]].patch_type
                    # heap[land_patches[k][2]].patch_type
              /\ get_neighbors_id(heap', nbr', land_patches'[k][2])
                    = get_neighbors_id(heap, nbr, land_patches[k][2])
              /\ \A j \in 1..Len(land_patches) :
                    j # k => land_patches'[j] = land_patches[j]]_vars

\* a Rockpatch made by Treepatch.mutate and a Treepatch made by
\* Rockpatch.mutate are both in the patch table, each under its own id and
\* with neighbours
C4_Witness ==
    /\ \E k \in 1..Len(land_patches) :
          /\ land_patches[k][2][3] >= 1
          /\ IsRock(heap[land_patches[k][2]])
          /\ heap[land_patches[k][2]].patch_id = land_patches[k][1]
          /\ get_neighbors_id(heap, nbr, land_patches[k][2]) # <<>>
    /\ \E k \in 1..Len(land_patches) :
          /\ land_patches[k][2][3] >= 1
          /\ IsTree(heap[land_patches[k][2]])
          /\ heap[land_patches[k][2]].patch_id = land_patches[k][1]

\* C5: after a Land has been built without an error, the ids of the patch
\* table are the ids of its edge list, and the neighbour relation is
\* symmetric on the table.
C5_TableMatchesEdges ==
    (run >= 1 /\ error = "none") =>
        /\ KeySet(land_patches) = NodesOf(edgelist)
        /\ \A a \in KeySet(land_patches) :
              \A b \in KeySet(land_patches) :
                 (b \in NeighbourIds(a)) <=> (a \in NeighbourIds(b))

\* C6: at every point of the simulation the ids of the patch table are the
\* ids of the graph, every patch has the neighbour ids that the edge list
\* gave it at construction, and the neighbour relation is symmetric.
C6_TopologyFixed ==
    /\ Len(land_patches) = Cardinality(NodesOf(edgelist))
    /\ KeySet(land_patches) = NodesOf(edgelist)
    /\ \A a \in KeySet(land_patches) :
          /\ heap[DictGet(land_patches, a)].patch_id = a
          /\ NeighbourIds(a) = EdgeNeighbours(a)
          /\ \A b \in NeighbourIds(a) : a \in NeighbourIds(b)

\* every patch of the table has been replaced by a mutation and an update
\* has returned
C6_Witness ==
    /\ pc = "idle"
    /\ \A k \in 1..Len(land_patches) : land_patches[k][2][3] >= 1

\* C7: a step of Land.update that does not get stuck in Firefighter.move
\* keeps the firefighters: their number is the same and so are the
\* firefighters themselves; a relocation only changes a position.
C7_FirefightersKept ==
    [][pc' \notin {"loop", "IndexError"} =>
        /\ Len(firefighters') = Len(firefighters)
        /\ Range(DictValues(firefighters')) = Range(DictValues(firefighters))]_vars

\* the first of two firefighters to relocate has moved, away from its
\* position, and both firefighters are there
C7_Witness ==
    /\ pc = "relocate"
    /\ idx = 2
    /\ Len(firefighter_to_move) = 2
    /\ Len(firefighters) = 2
    /\ firefighter_to_move[1][1] \notin KeySet(firefighters)

\* C8: the first Land of a process, built without an error for n
\* firefighters on at least n patches, has n firefighters.
C8_SpawnCount ==
    (run = 1 /\ error = "none" /\ configs.firefighters[1] <= Len(positions)) =>
        Len(firefighters) = configs.firefighters[1]

\* C9: fight_fire leaves an unlit tree as it is; a lit tree of health h gets
\* health min(h + skill, 256), which is at least h and at most 256, and it
\* is lit afterwards exactly if that health is below 256.
C9_FightFire ==
    t_op = "fight_fire" =>
        IF ~t_pre.lit_state
        THEN t_tree = t_pre
        ELSE /\ t_tree.tree_stats = Min(t_pre.tree_stats + t_arg, 256)
             /\ t_tree.tree_stats >= t_pre.tree_stats
             /\ t_tree.tree_stats <= 256
             /\ t_tree.lit_state = (t_tree.tree_stats # 256)
             /\ t_tree = [t_pre EXCEPT !.tree_stats = t_tree.tree_stats,
                                       !.lit_state = t_tree.lit_state]

\* a lit tree below 256 has been fought with a skill that would take it
\* above 256
C9_Witness ==
    /\ t_op = "fight_fire"
    /\ t_pre.lit_state
    /\ t_pre.tree_stats < 256
    /\ t_pre.tree_stats + t_arg > 256
    /\ t_tree.tree_stats = 256
    /\ ~t_tree.lit_state

\* C10: graph_validate_graph answers True exactly if the patch graph is connected.
C10_ValidateIsConnectivity ==
    validated # "none" => ((validated = "True") <=> Connected)

\* C11: Land.__init__ on a graph that is not planar raises ValueError, on a
\* planar graph that is not connected it raises RuntimeError; so whenever the
\* patch graph is not connected, the construction has ended in one of the two
\* errors and no Land is returned.
C11_NoLandOnInvalidGraph ==
    (run >= 1 /\ ~Connected) => error \in {"ValueError", "RuntimeError"}

\* the neighbour objects of the object r that are lit Treepatches
LitTreeNeighbours(r) ==
    {q \in Range(DictValues(get_neighbors(heap, nbr, r))) :
        IsTree(heap[q]) /\ heap[q].lit_state}

\* C12: in the pass of Land.update's third loop over an unlit Treepatch,
\* when the transmission probability is 100% and a neighbour is a lit
\* Treepatch, the patch is lit after the pass; when no neighbour is a lit
\* Treepatch and the ignition probability is 0, it is not lit after the pass.
C12_Transmission ==
    [][(/\ pc = "patches"
        /\ idx <= Len(land_patches)
        /\ idx' = idx + 1
        /\ IsTree(heap[land_patches[idx][2]])
        /\ ~heap[land_patches[idx][2]].lit_state)
       => LET ref == land_patches[idx][2]
          IN  /\ (configs.probabilities[2] = 1000 /\ LitTreeNeighbours(ref) # {})
                    => (ref \in DOMAIN heap' /\ heap'[ref].lit_state)
              /\ (configs.probabilities[1] = 0 /\ LitTreeNeighbours(ref) = {})
                    => (ref \in DOMAIN heap' /\ ~heap'[ref].lit_state)]_vars

\* C13: on the 4-node cycle of four Treepatches, without firefighters, with
\* ignition 0, transmission 100% and respawn 0, after the first Land.update
\* the Treepatch that the test lit has health 236 and exactly one of its
\* neighbours is lit.
C13_OneStepSpread ==
    (/\ completed_updates = 1
     /\ pc = "idle"
     /\ test_lit # 0
     /\ edgelist = Cycle4
     /\ configs.probabilities = <<0, 1000, 0>>
     /\ configs.firefighters[1] = 0
     /\ \A r \in TableRefs : IsTree(heap[r]))
    => /\ heap[DictGet(land_patches, test_lit)].tree_stats = 236
       /\ Cardinality({a \in NeighbourIds(test_lit) :
                          heap[DictGet(land_patches, a)].lit_state}) = 1

\* C14: the first Land of a process built with a forest ratio of 100% has
\* only Treepatches in its patch table, each with health 256 and not lit.
C14_FullForestAllTrees ==
    (run = 1 /\ configs.landscape = 100) =>
        \A r \in TableRefs :
            /\ IsTree(heap[r])
            /\ heap[r].tree_stats = 256
            /\ ~heap[r].lit_state

\* variant, health and lit flag of the patch that the table holds under id a
PatchState(h, table, a) ==
    LET p == h[DictGet(table, a)]
    IN  IF IsTree(p) THEN <<"Tree", p.tree_stats, p.lit_state>>
        ELSE <<"Rock", 0, FALSE>>

\* C15: in a Land with ignition 0, respawn 0 and no firefighter whose patch
\* table holds no lit Treepatch, no step of Land.update changes the variant,
\* the health or the lit flag of a patch of the table.
C15_QuietLandUnchanged ==
    [][(/\ pc # "idle" \/ pc' # "idle"
        /\ configs.probabilities[1] = 0
        /\ configs.probabilities[3] = 0
        /\ configs.firefighters[1] = 0
        /\ firefighters = <<>>
        /\ \A r \in TableTrees : ~heap[r].lit_state)
       => /\ KeySet(land_patches') = KeySet(land_patches)
          /\ \A a \in KeySet(land_patches) :
                PatchState(heap', land_patches', a)
                    = PatchState(heap, land_patches, a)]_vars

\* C16: when GraphBuilder has created the 100 patches of a graph of 100
\* nodes for a forest ratio of 80%, it has made 80 Treepatches and 20
\* Rockpatches.
C16_EightyOfHundred ==
    (Created = 100 /\ configs.landscape = 80) =>
        /\ builder.number_of_trees = 80
        /\ builder.number_of_rocks = 20

Abs(x) == IF x < 0 THEN 0 - x ELSE x

\* C17 as claimed: with n >= 1 patches created, the next patch does not take
\* the tree fraction farther from the target:
\* |trees(n+1)/(n+1) - target| <= |trees(n)/n - target|.
C17_MonotoneApproach ==
    [][(Created >= 1 /\ builder' # builder) =>
          Abs(100 * builder'.number_of_trees
                  - configs.landscape * (Created + 1)) * Created
            <= Abs(100 * builder.number_of_trees
                       - configs.landscape * Created) * (Created + 1)]_vars

\* C17 amended: after every created patch the number of trees is below
\* target * len(land_patches) + 1; when the table holds only the n patches of
\* this build, it is also at least target * n - 1, so the tree fraction is
\* within 1/n of the target (it converges, but not monotonically).
C17_FractionNearTarget ==
    Created >= 1 =>
        /\ 100 * builder.number_of_trees
              < configs.landscape * Len(land_patches) + 100
        /\ Len(land_patches) = Created =>
              100 * builder.number_of_trees
                  >= configs.landscape * Created - 100

\* the first Land of a process, ratio 80%: one tree of two patches, after one
\* tree of one patch (0.3 from the target after 0.2)
C17_Witness ==
    /\ run = 1
    /\ configs.landscape = 80
    /\ Created = 2
    /\ Len(land_patches) = 2
    /\ builder.number_of_trees = 1

\* C18: Firefighter.move does not get stuck: Land.update is never in the
\* while loop of move with every candidate destination occupied, where no
\* draw can end the loop and the call cannot return.
C18_MoveStops ==
    pc # "loop"

\* C19: no call of Land.update on a constructed Land ends in an exception:
\* neither a KeyError for a position or destination that the patch table
\* does not hold, nor an IndexError of random.choice on an empty list.
C19_NoErrorInUpdate ==
    pc \notin {"KeyError", "IndexError"}

\* the third loop of an update is over in which a firefighter was relocated,
\* in a Land with a patch that has mutated
C19_Witness ==
    /\ pc = "patches"
    /\ idx > Len(land_patches)
    /\ Len(firefighter_to_move) >= 1
    /\ Len(firefighters) = configs.firefighters[1]
    /\ \E r \in TableRefs : r[3] >= 1

\* a line made of two comma-separated non-negative integers
IsEdgeLine(line) ==
    /\ Len(split(line, ",")) = 2
    /\ isdigit(strip(split(line, ",")[1]))
    /\ isdigit(strip(split(line, ",")[2]))

IsBlankLine(line) == strip(line) = <<>>

IsCommentLine(line) == strip(line) # <<>> /\ Head(strip(line)) = "#"

\* the edges of the lines that are edge lines, in their order
RECURSIVE EdgesOf(_)
EdgesOf(lines) ==
    IF lines = <<>> THEN <<>>
    ELSE LET l == lines[Len(lines)]
             before == EdgesOf(SubSeq(lines, 1, Len(lines) - 1))
         IN  IF IsEdgeLine(l)
             THEN Append(before, <<int(strip(split(l, ",")[1])),
                                   int(strip(split(l, ",")[2]))>>)
             ELSE before

\* the lines that are neither edge lines nor blank nor comments
Malformed(lines) ==
    {k \in 1..Len(lines) :
        ~IsEdgeLine(lines[k]) /\ ~IsBlankLine(lines[k]) /\ ~IsCommentLine(lines[k])}

\* C20: after any number of lines, read_graph has accepted exactly the edge
\* lines, in file order, and has reported a syntax error for exactly the
\* lines that are neither edge lines nor blank nor comments.
C20_AcceptsAndReports ==
    /\ r_edgeslist = EdgesOf(r_lines)
    /\ r_reports = Cardinality(Malformed(r_lines))

\* C21: the first Land built after option 1 (All Woods) was entered last in
\* landscape_menu has only Treepatches in its patch table, the one built after
\* option 2 (All Rocks) has only Rockpatches.
C21_AllWoodsAllRocks ==
    (run = 1 /\ error = "none") =>
        /\ initial_landscape_input = 1 => \A r \in TableRefs : IsTree(heap[r])
        /\ initial_landscape_input = 2 => \A r \in TableRefs : IsRock(heap[r])

\* the values passed as argument number k in the update_sim_data calls so far
ArgsInOrder(k) == [i \in 1..Len(sim_args) |-> sim_args[i][k]]

\* C22: the three series of a SimReporting object start empty, and after any
\* sequence of update_sim_data calls each series is the sequence of the
\* corresponding arguments in call order.
C22_SeriesAreArguments ==
    /\ tree_iteration_data = ArgsInOrder(1)
    /\ rock_iteration_data = ArgsInOrder(2)
    /\ wildfire_iteration_data = ArgsInOrder(3)

\* two calls with different arguments in every position, as in the unit test
C22_Witness ==
    /\ Len(sim_args) = 2
    /\ sim_args[1] = <<1, 2, 0>>
    /\ sim_args[2] = <<0, 1, 2>>
    /\ tree_iteration_data = <<1, 0>>

\* a pass of the second loop of Land.update that put its firefighter on a
\* destination
Relocated == pc = "relocate" /\ pc' = "relocate" /\ idx' = idx + 1
\* the position that pass took its firefighter from: its position at the
\* start of the step, as the first loop moves nobody
RelocatedFrom == firefighter_to_move[idx][1]
\* the position that pass put its firefighter on
RelocatedTo ==
    CHOOSE d \in Range(DictKeys(firefighters')) :
        DictGet(firefighters', d) = firefighter_to_move[idx][2]

\* C23: every firefighter that Land.update relocates is put on a patch that
\* the edge list joins to the patch it occupied at the start of the step.
C23_MovesToNeighbour ==
    [][Relocated => RelocatedTo \in EdgeNeighbours(RelocatedFrom)]_vars

\* the positions of the other firefighters when a pass of the second loop
\* calls move
OtherFirefighters == get_firefighters(DictPop(firefighters, RelocatedFrom))
OtherPositions == Range(OtherFirefighters)
\* patch d of the patch table is a lit Treepatch
LitInTable(d) ==
    /\ HasKey(land_patches, d)
    /\ IsTree(heap[DictGet(land_patches, d)])
    /\ heap[DictGet(land_patches, d)].lit_state
\* the neighbours of the relocating firefighter's patch that are, in the patch
\* table, lit Treepatches without a firefighter
LitFreeNeighbours ==
    {d \in EdgeNeighbours(RelocatedFrom) : LitInTable(d) /\ d \notin OtherPositions}
\* move returns from inside its for loop, by the preference for a burning tree
ByPreference ==
    LitTargets(heap, get_neighbors(heap, nbr, landpatch), OtherFirefighters) # {}

\* a relocated firefighter whose patch has a neighbour that is a lit Treepatch
\* without a firefighter is put on such a neighbour
PrefersLitNeighbour ==
    (Relocated /\ LitFreeNeighbours # {}) => RelocatedTo \in LitFreeNeighbours
\* a destination chosen by the preference is a lit Treepatch of the patch table
PreferredIsLit ==
    (Relocated /\ ByPreference) => LitInTable(RelocatedTo)

\* C24: a relocating firefighter whose patch has a neighbour that is, in the
\* patch table, a lit Treepatch without a firefighter goes to such a neighbour,
\* and a destination chosen by this preference is never a Rockpatch or an
\* unlit Treepatch.
C24_PreferenceRule == [][PrefersLitNeighbour /\ PreferredIsLit]_vars

\* a pass of the first loop of Land.update that ends without an exception
Deciding == pc = "decide" /\ idx <= Len(firefighters) /\ pc' = "decide"
DecidedPosition == firefighters[idx][1]
DecidedPatch == DictGet(land_patches, DecidedPosition)
OnLitTree == IsTree(heap[DecidedPatch]) /\ heap[DecidedPatch].lit_state
\* the firefighters that the first loop did not mark stay where they are in
\* the second and third loop
UnmarkedStay ==
    pc \in {"relocate", "patches"} =>
        \A position \in Range(DictKeys(firefighters)) \ Range(DictKeys(firefighter_to_move)) :
            /\ HasKey(firefighters', position)
            /\ DictGet(firefighters', position) = DictGet(firefighters, position)

\* C25: in the first loop of Land.update a firefighter on a lit Treepatch
\* applies fight_fire to it (the patch has not been updated in this step) and
\* is not marked, so it is on the same patch at the end of the step; a
\* firefighter on a Rockpatch or an unlit Treepatch is marked for relocation
\* and no patch changes.
C25_FightOrRelocate ==
    [][/\ (Deciding /\ OnLitTree) =>
              /\ heap' = [heap EXCEPT ![DecidedPatch] =
                             fight_fire(firefighters[idx][2].avg_skill, @)]
              /\ ~HasKey(firefighter_to_move', DecidedPosition)
       /\ (Deciding /\ ~OnLitTree) =>
              /\ HasKey(firefighter_to_move', DecidedPosition)
              /\ heap' = heap
       /\ UnmarkedStay]_vars

\* the second loop begins with one firefighter that fought, on a Treepatch
\* whose health the fight raised, and one that is marked
C25_Witness ==
    /\ pc = "relocate"
    /\ idx = 1
    /\ Len(firefighter_to_move) = 1
    /\ \E position \in Range(DictKeys(firefighters)) \ Range(DictKeys(firefighter_to_move)) :
          /\ IsTree(heap[DictGet(land_patches, position)])
          /\ heap[DictGet(land_patches, position)].tree_stats = 256

\* the patch objects, the firefighter flag left out
SameButFlag(r) ==
    /\ r \in DOMAIN heap'
    /\ [heap'[r] EXCEPT !.firefighter = heap[r].firefighter] = heap[r]

\* C26: within one Land.update every fight and every relocation is over
\* before the first fire-transmission check or patch update: the third loop
\* is entered only after the first loop has passed every firefighter and the
\* second every marked one, the first two loops change no patch but by a
\* fight, and the third loop moves no firefighter and changes no flag.
C26_FirefightersFirst ==
    [][/\ (pc = "decide" /\ pc' = "relocate") => idx > Len(firefighters)
       /\ (pc # "patches" /\ pc' = "patches") =>
              pc = "relocate" /\ idx > Len(firefighter_to_move)
       /\ pc \in {"decide", "relocate"} =>
              /\ land_patches' = land_patches
              /\ \A r \in DOMAIN heap :
                    SameButFlag(r) \/ (Deciding /\ OnLitTree /\ r = DecidedPatch)
       /\ pc = "patches" =>
              /\ firefighters' = firefighters
              /\ \A r \in DOMAIN heap \cap DOMAIN heap' :
                    heap'[r].firefighter = heap[r].firefighter]_vars

\* the third loop begins after one firefighter fought and another one was
\* relocated to a new position
C26_Witness ==
    /\ pc = "patches"
    /\ idx = 1
    /\ Len(firefighters) = 2
    /\ Len(firefighter_to_move) = 1
    /\ ~HasKey(firefighters, firefighter_to_move[1][1])

\* update() has been called on a Treepatch
TreeUpdated == t_op \in {"update_True", "update_False"} /\ IsTree(t_pre)
\* the autocombustion roll of that call succeeded
Ignited == Roll(t_arg, t_pre.prob_autcombustion)

\* C27: Treepatch.update with a failed autocombustion roll makes the health
\* of an unlit tree min(health + 10, 256) and leaves it unlit, takes exactly 20
\* from a lit tree with health >= 20 and leaves it lit, and for a lit tree
\* with health < 20 keeps the health and returns True; with a successful roll
\* the tree is handled as a lit one whatever it was before.
C27_TreeUpdate ==
    TreeUpdated =>
        /\ (~Ignited /\ ~t_pre.lit_state) =>
              /\ t_tree.tree_stats = Min(t_pre.tree_stats + 10, 256)
              /\ ~t_tree.lit_state
        /\ ((Ignited \/ t_pre.lit_state) /\ t_pre.tree_stats >= 20) =>
              /\ t_tree.tree_stats = t_pre.tree_stats - 20
              /\ t_tree.lit_state
        /\ ((Ignited \/ t_pre.lit_state) /\ t_pre.tree_stats < 20) =>
              /\ t_tree.tree_stats = t_pre.tree_stats
              /\ t_op = "update_True"

\* an unlit tree of health 15 whose roll succeeded: it is handled as lit,
\* keeps its health and asks for the mutation
C27_Witness ==
    /\ TreeUpdated
    /\ Ignited
    /\ ~t_pre.lit_state
    /\ t_pre.tree_stats = 15
    /\ t_tree.tree_stats = 15
    /\ t_op = "update_True"

\* C28: at the end of a step no Treepatch of the patch table has health 0; a
\* lit tree whose health reaches 0 in Land.update has been replaced by a
\* Rockpatch when the update returns.
C28_NoDeadTree ==
    (pc = "idle" /\ run >= 1) => \A r \in TableTrees : heap[r].tree_stats # 0

\* a pass of the third loop of Land.update over a Treepatch
UpdatingTree ==
    pc = "patches" /\ idx <= Len(land_patches) /\ IsTree(heap[land_patches[idx][2]])
\* the patch of that pass before it, and the patch the table holds after it
TreeBefore == heap[land_patches[idx][2]]
PatchAfter == heap'[land_patches'[idx][2]]

\* C28 as the code has it: a Treepatch is replaced by a Rockpatch in the step
\* in which burning would take its health below 0, that is when it is lit
\* with health below 20; a lit tree with health 20 or more stays a Treepatch
\* and loses 20, so that a lit Treepatch is left with health 0 when it had 20.
C28_BurntOutBelowZero ==
    [][UpdatingTree =>
          /\ (TreeBefore.lit_state /\ TreeBefore.tree_stats < 20) =>
                 IsRock(PatchAfter) /\ PatchAfter.patch_id = TreeBefore.patch_id
          /\ IsRock(PatchAfter) => TreeBefore.tree_stats < 20
          /\ (IsTree(PatchAfter) /\ PatchAfter.lit_state) =>
                 /\ TreeBefore.tree_stats >= 20
                 /\ PatchAfter.tree_stats = TreeBefore.tree_stats - 20]_vars

\* the third loop has just replaced a lit Treepatch of health below 20 by a
\* Rockpatch, and has left another lit Treepatch with health 0
C28_Witness ==
    /\ pc = "patches"
    /\ idx > 1
    /\ IsRock(heap[land_patches[idx - 1][2]])
    /\ \E r \in DOMAIN heap :
          /\ IsTree(heap[r])
          /\ heap[r].patch_id = land_patches[idx - 1][1]
          /\ heap[r].lit_state
          /\ heap[r].tree_stats < 20

\* C29: Rockpatch.update returns True exactly when the roll, a number of
\* 1..100, is at most the regrowth probability in percent, so never with
\* probability 0; the Treepatch that Rockpatch.mutate makes has the id of the
\* rock, health 1 and is unlit.
C29_RockUpdate ==
    IsRock(t_pre) =>
        /\ t_op \in {"update_True", "update_False"} =>
              /\ (t_op = "update_True") <=> (10 * t_arg <= t_pre.prob_treepatch)
              /\ t_pre.prob_treepatch = 0 => t_op = "update_False"
        /\ t_op = "mutate" =>
              /\ IsTree(t_tree)
              /\ t_tree.patch_id = t_pre.patch_id
              /\ t_tree.tree_stats = 1
              /\ ~t_tree.lit_state

\* a rock with regrowth probability 30 whose roll was 30 has been replaced
C29_Witness ==
    /\ IsRock(t_pre)
    /\ t_pre.prob_treepatch = 300
    /\ t_arg = 30
    /\ t_op = "mutate"
    /\ IsTree(t_tree)

\* C30: in every state each Treepatch of the patch table has the configured
\* ignition probability as its autocombustion probability and each Rockpatch
\* the configured respawn probability as its regrowth probability, the
\* patches installed by a mutation included.
C30_ConfiguredProbabilities ==
    run >= 1 =>
        \A r \in TableRefs :
            /\ IsTree(heap[r]) => heap[r].prob_autcombustion = configs.probabilities[1]
            /\ IsRock(heap[r]) => heap[r].prob_treepatch = configs.probabilities[3]

\* C31: at every step boundary, after the construction and after each
\* Land.update, a patch of the patch table has its firefighter flag set exactly
\* when its id is a key of the firefighter mapping; a patch replaced by a
\* mutation under a firefighter keeps the flag.
C31_FlagIsOccupancy ==
    (pc = "idle" /\ run >= 1 /\ error = "none") =>
        \A k \in 1..Len(land_patches) :
            heap[land_patches[k][2]].firefighter <=> HasKey(firefighters, land_patches[k][1])

\* C32: a second Land constructed in the same process starts from an empty
\* patch table and an empty firefighter mapping: its table holds only ids of
\* its own graph, and its mapping only the firefighters spawned for it, on
\* patches of its graph and no more than the configured number.
C32_FreshLand ==
    (run = 2 /\ error = "none") =>
        /\ KeySet(land_patches) \subseteq NodesOf(edgelist)
        /\ KeySet(firefighters) \subseteq NodesOf(edgelist)
        /\ Len(firefighters) <= configs.firefighters[1]

\* C33: at the end of every Land.update the colour of each Treepatch of the
\* patch table is its health when it is unlit and its health - 256 when it is
\* lit, and every Rockpatch has the colour None.
C33_ColourIsHealth ==
    (pc = "idle" /\ run >= 1 /\ error = "none") =>
        \A r \in TableRefs :
            /\ (IsTree(heap[r]) /\ ~heap[r].lit_state) =>
                   heap[r].color = heap[r].tree_stats
            /\ (IsTree(heap[r]) /\ heap[r].lit_state) =>
                   heap[r].color = heap[r].tree_stats - 256
            /\ IsRock(heap[r]) => heap[r].color = None

\* C34: in one Land.update, update() runs exactly once for every id of the
\* patch table: the third loop starts at the first entry, each pass is the
\* update of the entry idx alone and goes on to idx + 1, a mutation replaces
\* that entry in place, so that no id is added, removed or moved and the
\* replacement is not met again, and the loop ends only after the last entry.
C34_OncePerPatch ==
    [][/\ (pc # "patches" /\ pc' = "patches") => idx' = 1
       /\ pc = "patches" =>
             /\ DictKeys(land_patches') = DictKeys(land_patches)
             /\ pc' = "patches" => idx <= Len(land_patches) /\ idx' = idx + 1
             /\ pc' # "patches" => idx > Len(land_patches)
             /\ \A k \in 1..Len(land_patches) :
                   k # idx =>
                       /\ land_patches'[k] = land_patches[k]
                       /\ heap'[land_patches[k][2]] = heap[land_patches[k][2]]]_vars

\* the third loop is over, and the Treepatch that replaced a Rockpatch in it
\* is as Rockpatch.mutate made it
C34_Witness ==
    /\ pc = "patches"
    /\ idx > Len(land_patches)
    /\ \E k \in 1..Len(land_patches) :
          /\ k < Len(land_patches)
          /\ land_patches[k][2][3] >= 1
          /\ IsTree(heap[land_patches[k][2]])
          /\ heap[land_patches[k][2]].tree_stats = RegrowStats

\* the rolls of update_fire_transmition in the pass over a Treepatch
PassHits ==
    TransmissionHits(heap, nbr, land_patches[idx][2], configs.probabilities[1])

Reported == pc = "idle" /\ sim_args # <<>> /\ Len(sim_args) = completed_updates + 1
\* the lit Treepatches and the Rockpatches of the patch table
TableLit == {r \in TableTrees : heap[r].lit_state}
TableRocks == {r \in TableRefs : IsRock(heap[r])}

\* C36: for the initial state and after every step, the wildfire count that
\* start_simulation records is the number of lit Treepatches of the patch
\* table and is not negative, and the rock count is the number of Rockpatches.
C36_ReportedCounts ==
    Reported =>
        /\ wildfire_iteration_data[Len(sim_args)] = Cardinality(TableLit)
        /\ wildfire_iteration_data[Len(sim_args)] >= 0
        /\ rock_iteration_data[Len(sim_args)] = Cardinality(TableRocks)

\* the local metric of the k-th vertex of the Graph
MetricOf(k) == local_metric(vertecies, vertecies[k][1])
\* the vertices of positive local metric
Violating == {k \in 1..Len(vertecies) : MetricOf(k) > 0}
\* the vertices whose colour a step changes
Flipped == {k \in 1..Len(vertecies) : vertecies'[k][2].color # vertecies[k][2].color}

\* C37: a call of Graph.update_max_violation changes the colour of at most one
\* vertex, which is the first vertex in iteration order whose local metric is
\* positive and maximal; every other vertex and every other val_map entry is
\* as before, and without a vertex of positive local metric nothing changes.
C37_FlipsFirstMaximal ==
    [][g_edges # <<>> =>
          /\ DictKeys(vertecies') = DictKeys(vertecies)
          /\ DictKeys(val_map') = DictKeys(val_map)
          /\ Cardinality(Flipped) <= 1
          /\ \A k \in Flipped :
                /\ MetricOf(k) > 0
                /\ \A j \in 1..Len(vertecies) :
                      /\ MetricOf(j) <= MetricOf(k)
                      /\ j < k => MetricOf(j) < MetricOf(k)
                /\ vertecies'[k][2].color = 1 - vertecies[k][2].color
                /\ DictGet(val_map', int(vertecies[k][1])) = vertecies'[k][2].color
          /\ \A k \in 1..Len(vertecies) :
                k \notin Flipped =>
                    /\ vertecies'[k] = vertecies[k]
                    /\ DictGet(val_map', int(vertecies[k][1])) =
                           DictGet(val_map, int(vertecies[k][1]))
          /\ Violating = {} => vertecies' = vertecies /\ val_map' = val_map]_vars

\* run_update_procedure has recorded a flip on a Graph of three vertices in
\* which the first vertex was not the one of maximal local metric
C37_Witness ==
    /\ Len(vertecies) = 3
    /\ Len(max_violation_metrics) >= 2
    /\ max_violation_metrics[1] # max_violation_metrics[2]
    /\ vertecies[1][2].color = 0
    /\ val_map[1][2] = 0
    /\ \E k \in 2..3 : vertecies[k][2].color = 1 /\ MetricOf(k) < 0

\* the Graph has no edge from a site to itself
NoSelfLoops == \A k \in 1..Len(g_edges) : g_edges[k][1] # g_edges[k][2]
\* no vertex has a positive local metric: update_max_violation flips nothing
Settled == Violating = {}

\* C38: on a Graph without self-loop edges every update_max_violation call
\* that flips a vertex lowers global_metric by twice the local metric of the
\* flipped vertex, and repeated calls reach a colouring in which no vertex is
\* flipped any more.
C38_MetricDecreases ==
    /\ [][(g_edges # <<>> /\ NoSelfLoops) =>
             \A k \in Flipped :
                /\ global_metric(vertecies') = global_metric(vertecies) - 2 * MetricOf(k)
                /\ global_metric(vertecies') < global_metric(vertecies)]_vars
    /\ <>[](NoSelfLoops => Settled)

\* run_update_procedure has recorded a metric that fell twice on a Graph
\* without self-loop edges, and no vertex is left to flip
C38_Witness ==
    /\ NoSelfLoops
    /\ Settled
    /\ Len(max_violation_metrics) >= 3
    /\ max_violation_metrics[2] < max_violation_metrics[1]
    /\ max_violation_metrics[3] < max_violation_metrics[2]

====
